---- MODULE Spec2Model ----
(***************************************************************************)
(* QWebSocketThreaded (a QWebSocket driven from another thread through     *)
(* queued signal/slot connections) and QQmlWebSocketThreaded (its QML      *)
(* adapter).                                                               *)
(*                                                                         *)
(* Two threads: the caller thread runs the adapter and the facade, the     *)
(* worker thread (m_thread) runs the QWebSocket.  A signal emitted in one  *)
(* thread for a receiver living in the other is posted to the receiver's   *)
(* event queue: cmdQ holds the posted commands (caller -> worker), evQ the *)
(* posted engine signals (worker -> caller).                               *)
(*                                                                         *)
(* Spec is the adapter with its facade and QWebSocket, driven through the  *)
(* QML life cycle (classBegin, property writes, componentComplete).        *)
(* FacadeSpec is a QWebSocketThreaded used directly, from its construction *)
(* to its destruction; FacadeFairSpec adds the scheduling of the worker's  *)
(* event loop.  The QWebSocket itself is modelled by its contract: the     *)
(* state changes and signals it produces for each command and each network *)
(* event; an open on a socket that is not unconnected, and a close on one  *)
(* that is neither connecting nor connected, do nothing.                   *)
(* SocketSpec is Spec started from the adapter's second constructor, which *)
(* wraps an existing facade.                                               *)
(* AdapterSpec is the adapter against a facade that hands it any state     *)
(* or error; FairSpec and FacadeLoopsFairSpec add the delivery of posted   *)
(* signals by the caller's event loop.  ServerSpec is a QWebSocketServer   *)
(* with the raw connections it accepts.                                    *)
(***************************************************************************)
EXTENDS Naturals, Sequences, FiniteSets

VARIABLES
    \* QQmlWebSocketThreaded
    m_status, m_url, m_isActive, m_componentCompleted, m_errorString,
    m_webSocket,        \* TRUE when the scoped pointer holds a facade
    sendResult,         \* what the last send call of the adapter returned
    emitted,            \* the signals the adapter emitted in its last call
    lastCall,           \* the function or slot of the adapter that ran last
    phase,              \* where the caller is in the adapter's life cycle
    \* QWebSocketThreaded
    m_state, ws_m_url, ws_m_errorString,
    thread,             \* m_thread: "none", "running", "failed", "finished"
    quit,               \* m_thread.quit() has been called
    cmdQ, evQ,          \* posted queued-connection calls, both directions
    \* QWebSocket living in the worker thread
    engine,             \* "none", "alive", "deleted"
    sock,               \* its socket state
    \* observation only
    submitted, executed,    \* commands handed to the facade / run by the QWebSocket
    raised, delivered,      \* signals the QWebSocket emitted / the facade re-emitted
    nReceived,              \* messages the peer has sent
    openSince,              \* an open was submitted since m_status last became
                            \* Closed or Error
    \* QWebSocketServer
    srv,                    \* the server object: "none", "alive", "destroyed"
    listening,              \* m_pTcpServer->isListening()
    maxPending,             \* m_pTcpServer->maxPendingConnections()
    m_pendingConnections,   \* the queue of upgraded connections
    hs,                     \* per stream: where its handshake is
    request,                \* per stream: the lines its client sends
    got,                    \* per stream: the lines handshakeReceived read
    io,                     \* per stream: what was done to it, in order
    newConnection,          \* the emissions of newConnection()
    nextResult,             \* << what the last nextPendingConnection() returned >>
    handed,                 \* the connections it returned, in order
    readyAgain              \* streams that became readable after their handshake

vars == << m_status, m_url, m_isActive, m_componentCompleted, m_errorString,
           m_webSocket, sendResult, emitted, lastCall, phase, m_state,
           ws_m_url,
           ws_m_errorString, thread, quit, cmdQ, evQ, engine, sock, submitted,
           executed, raised, delivered, nReceived, openSince,
           srv, listening, maxPending, m_pendingConnections, hs, request,
           got, io, newConnection, nextResult, handed, readyAgain >>

adapterVars == << m_status, m_url, m_isActive, m_componentCompleted,
                  m_errorString, m_webSocket, sendResult, emitted, lastCall,
                  phase >>
workerObs   == << executed, raised, nReceived >>
serverVars  == << srv, listening, maxPending, m_pendingConnections, hs,
                  request, got, io, newConnection, nextResult, handed,
                  readyAgain >>
clientVars  == << adapterVars, m_state, ws_m_url, ws_m_errorString, thread,
                  quit, cmdQ, evQ, engine, sock, submitted, executed, raised,
                  delivered, nReceived, openSince >>

----------------------------------------------------------------------------
\* Bounds of the model
MaxCmds == 2        \* commands the caller submits in one behaviour
MaxRecv == 1        \* messages the peer sends in one behaviour
MaxStreams == 2     \* raw connections the server accepts in one behaviour
MaxLimit == 2       \* largest value given to setMaxPendingConnections
MaxSignals == 2     \* signals the facade hands to the adapter in one behaviour

\* Values
NoUrl    == "none"                      \* QUrl(): empty, not valid
Urls     == {NoUrl, "ws://a"}
AdapterUrls == Urls \cup {"ws://b"}        \* with a second server to move to
Messages == {"m"}

NotReadyString == "QQmlWebSocketThreaded is not ready."
SendErrString  == "Messages can only be sent when the socket is open."

Statuses == {"Connecting", "Open", "Closing", "Closed", "Error"}

SocketStates == {"UnconnectedState", "HostLookupState", "ConnectingState",
                 "ConnectedState", "BoundState", "ListeningState",
                 "ClosingState"}

\* What a read of the member m_state gives while no constructor or handler
\* has written it: whatever the memory held, any state of the socket or a
\* value that is no enumerator.
NoEnumerator == "-1"
Indeterminate == SocketStates \cup {NoEnumerator}

Cmd(t, a) == [type |-> t, arg |-> a]
Ev(t, a)  == [type |-> t, arg |-> a]
Sig(s, a) == [signal |-> s, arg |-> a]
\* a bool as a signal's argument
BoolArg(b) == IF b THEN "true" ELSE "false"

isValid(url) == url # NoUrl

----------------------------------------------------------------------------
\* QQmlWebSocketThreaded: the helpers the slots call

\* setErrorString(errorString): assigns when the value differs
setErrorString(old, errorString) ==
    IF old = errorString THEN old ELSE errorString

\* what setErrorString(errorString) emits
errorStringSignals(old, errorString) ==
    IF old = errorString THEN << >>
    ELSE << Sig("errorStringChanged", errorString) >>

\* setStatus(status): no-op on the same value; a status other than Error
\* clears the error string.  Yields the new (m_status, m_errorString).
\* (mutant) statusChanged is emitted whether or not the status changes
setStatus_AlwaysEmits(st, es, status) ==
    [status |-> status,
     errorString |-> IF st # status /\ status # "Error"
                     THEN setErrorString(es, "") ELSE es,
     signals |-> (IF st # status /\ status # "Error"
                  THEN errorStringSignals(es, "") ELSE << >>)
                 \o << Sig("statusChanged", status) >>]

setStatus(st, es, status) ==
    IF st = status
    THEN [status |-> st, errorString |-> es, signals |-> << >>]
    ELSE [status |-> status,
          errorString |-> IF status # "Error" THEN setErrorString(es, "")
                                              ELSE es,
          signals |-> (IF status # "Error" THEN errorStringSignals(es, "")
                                           ELSE << >>)
                      \o << Sig("statusChanged", status) >>]

\* (mutant) a state the switch does not name is reported as an error
StatusOf_DefaultError(state) ==
    CASE state \in {"ConnectingState", "BoundState", "HostLookupState"}
                                         -> "Connecting"
      [] state = "UnconnectedState"      -> "Closed"
      [] state = "ConnectedState"        -> "Open"
      [] state = "ClosingState"          -> "Closing"
      [] OTHER                           -> "Error"

\* the switch of onStateChanged
StatusOf(state) ==
    CASE state \in {"ConnectingState", "BoundState", "HostLookupState"}
                                         -> "Connecting"
      [] state = "UnconnectedState"      -> "Closed"
      [] state = "ConnectedState"        -> "Open"
      [] state = "ClosingState"          -> "Closing"
      [] OTHER                           -> "Connecting"

\* (mutant) open() looks neither at active nor at the url
openCommands_Unguarded(completed, active, url, ws) ==
    IF completed /\ ws THEN << Cmd("open", url) >> ELSE << >>

\* open(): the commands it hands to the facade
openCommands(completed, active, url, ws) ==
    IF completed /\ active /\ isValid(url) /\ ws
    THEN << Cmd("open", url) >> ELSE << >>

\* close(): the commands it hands to the facade
closeCommands(completed, ws) ==
    IF completed /\ ws THEN << Cmd("close", "") >> ELSE << >>

----------------------------------------------------------------------------
\* QWebSocketThreaded: the two directions of queued connections

\* (mutant) close is delivered ahead of what is already posted
PostCommand_ClosePreempts(q, c) ==
    IF c.type = "close" THEN << c >> \o q ELSE Append(q, c)

\* a command signal emitted in the caller thread is posted to the worker
PostCommand(q, c) == Append(q, c)

\* (mutant) a stateChanged still pending is overwritten by the next one
PostEvent_Coalescing(q, e) ==
    IF q # << >> /\ q[Len(q)].type = "stateChanged" /\ e.type = "stateChanged"
    THEN [q EXCEPT ![Len(q)] = e] ELSE Append(q, e)

\* an engine signal emitted in the worker thread is posted to the caller
PostEvent(q, e) == Append(q, e)

RECURSIVE PostCommands(_, _)
PostCommands(q, cs) ==
    IF cs = << >> THEN q ELSE PostCommands(PostCommand(q, Head(cs)), Tail(cs))

RECURSIVE PostEvents(_, _)
PostEvents(q, es) ==
    IF es = << >> THEN q ELSE PostEvents(PostEvent(q, Head(es)), Tail(es))

\* QWebSocketThreaded::open stores the url before emitting openCommand
UrlAfter(url, cs) ==
    IF cs # << >> /\ cs[Len(cs)].type = "open" THEN cs[Len(cs)].arg ELSE url

HasOpen(cs) == \E i \in 1..Len(cs) : cs[i].type = "open"

\* The caller hands the commands cs to the facade, in order.
Submit(cs) ==
    /\ Len(submitted) + Len(cs) <= MaxCmds
    /\ cmdQ' = PostCommands(cmdQ, cs)
    /\ submitted' = submitted \o cs
    /\ ws_m_url' = UrlAfter(ws_m_url, cs)

TypeOK ==
    /\ m_status \in Statuses
    /\ m_url \in AdapterUrls
    /\ m_isActive \in BOOLEAN /\ m_componentCompleted \in BOOLEAN
    /\ m_errorString \in {"", NotReadyString, SendErrString}
    /\ m_webSocket \in BOOLEAN
    /\ sendResult \in {"none", "0", "-1"}
    /\ phase \in {"constructed", "begun", "complete", "waiting", "destroyed"}
    /\ m_state \in Indeterminate \cup {"none"}
    /\ thread \in {"none", "running", "failed", "finished"}
    /\ quit \in BOOLEAN
    /\ engine \in {"none", "alive", "deleted"}
    /\ sock \in SocketStates
    /\ Len(submitted) <= MaxCmds
    /\ nReceived <= MaxRecv

\* The raw connections of a server, and a program that has no server
Streams == 1..MaxStreams

NoServer ==
    /\ srv = "none"
    /\ listening = FALSE
    /\ maxPending = 0
    /\ m_pendingConnections = << >>
    /\ hs = [s \in Streams |-> "Idle"]
    /\ request = [s \in Streams |-> << >>]
    /\ got = [s \in Streams |-> << >>]
    /\ io = [s \in Streams |-> << >>]
    /\ newConnection = << >>
    /\ nextResult = << >>
    /\ handed = << >>
    /\ readyAgain = {}

----------------------------------------------------------------------------
\* QQmlWebSocketThreaded(QObject *parent), before any facade exists
Init ==
    /\ m_status = "Closed"
    /\ m_url = NoUrl
    /\ m_isActive = FALSE
    /\ m_componentCompleted = TRUE
    /\ m_errorString = ""
    /\ m_webSocket = FALSE
    /\ sendResult = "none"
    /\ emitted = << >>
    /\ lastCall = "none"
    /\ phase = "constructed"
    /\ m_state = "none"
    /\ ws_m_url = NoUrl
    /\ ws_m_errorString = ""
    /\ thread = "none"
    /\ quit = FALSE
    /\ cmdQ = << >> /\ evQ = << >>
    /\ engine = "none"
    /\ sock = "UnconnectedState"
    /\ submitted = << >> /\ executed = << >>
    /\ raised = << >> /\ delivered = << >>
    /\ nReceived = 0
    /\ openSince = FALSE
    /\ NoServer

facadeVars == << m_state, ws_m_errorString, thread, quit, evQ, engine, sock >>

\* classBegin(): called by the QML engine right after construction
classBegin ==
    /\ phase = "constructed"
    /\ phase' = "begun"
    /\ m_componentCompleted' = FALSE
    /\ m_errorString' = NotReadyString
    /\ m_status' = "Closed"
    /\ emitted' = << >>
    /\ lastCall' = "classBegin"
    /\ UNCHANGED << m_url, m_isActive, m_webSocket, sendResult, facadeVars,
                    ws_m_url, cmdQ, submitted, delivered, workerObs, serverVars,
                    openSince >>

\* m_thread.start(): the thread runs, or the system refuses to start it;
\* the constructor does not look at the outcome
StartOutcomes == {"running", "failed"}

\* componentComplete(): setSocket(new QWebSocketThreaded), then open().
\* The facade's constructor creates the QWebSocket, moves it to m_thread and
\* starts the thread; it does not initialise m_state, so the member holds
\* any value until the first stateChanged is handled.
componentComplete ==
    /\ phase = "begun"
    /\ phase' = "complete"
    /\ m_webSocket' = TRUE
    /\ m_componentCompleted' = TRUE
    /\ m_state' \in Indeterminate
    /\ thread' \in StartOutcomes
    /\ emitted' = << >>
    /\ lastCall' = "componentComplete"
    /\ engine' = "alive"
    /\ sock' = "UnconnectedState"
    /\ LET cs == openCommands(TRUE, m_isActive, m_url, TRUE)
       IN  /\ Submit(cs)
           /\ openSince' = (openSince \/ HasOpen(cs))
    /\ UNCHANGED << m_status, m_url, m_isActive, m_errorString, sendResult,
                    ws_m_errorString, quit, evQ, delivered, workerObs,
                    serverVars >>

CallerIdle == phase \in {"begun", "complete"}

\* (mutant) the open for the new url is submitted before the close
urlCommands_OpenFirst(status, completed, active, url, ws) ==
    openCommands(completed, active, url, ws)
    \o (IF ws /\ status = "Open" THEN << Cmd("close", "") >> ELSE << >>)

\* What setUrl hands to the facade once the url differs: close() when the
\* status is Open, then open() under its guard.
urlCommands(status, completed, active, url, ws) ==
    (IF ws /\ status = "Open" THEN << Cmd("close", "") >> ELSE << >>)
    \o openCommands(completed, active, url, ws)

\* setUrl(url)
setUrl(url) ==
    /\ CallerIdle
    /\ lastCall' = "setUrl"
    /\ IF m_url = url
       THEN /\ emitted' = << >>
            /\ UNCHANGED << m_status, m_url, m_isActive, m_componentCompleted,
                            m_errorString, m_webSocket, sendResult, phase,
                            facadeVars, ws_m_url, cmdQ, submitted, delivered,
                            workerObs, serverVars, openSince >>
       ELSE LET cs == urlCommands(m_status, m_componentCompleted, m_isActive,
                                  url, m_webSocket)
            IN  /\ m_url' = url
                \* Q_EMIT urlChanged(): the signal carries no argument
                /\ emitted' = << Sig("urlChanged", "") >>
                /\ Submit(cs)
                /\ openSince' = (openSince \/ HasOpen(cs))
                /\ UNCHANGED << m_status, m_isActive, m_componentCompleted,
                                m_errorString, m_webSocket, sendResult, phase,
                                facadeVars, delivered, workerObs, serverVars >>

\* setActive(active)
setActive(active) ==
    /\ CallerIdle
    /\ lastCall' = "setActive"
    /\ IF m_isActive = active
       THEN /\ emitted' = << >>
            /\ UNCHANGED << m_status, m_url, m_isActive, m_componentCompleted,
                            m_errorString, m_webSocket, sendResult, phase,
                            facadeVars, ws_m_url, cmdQ, submitted, delivered,
                            workerObs, serverVars, openSince >>
       ELSE LET cs == IF ~m_componentCompleted THEN << >>
                      ELSE IF active
                           THEN openCommands(m_componentCompleted, active,
                                             m_url, m_webSocket)
                           ELSE closeCommands(m_componentCompleted, m_webSocket)
            IN  /\ m_isActive' = active
                /\ emitted' = << Sig("activeChanged", BoolArg(active)) >>
                /\ Submit(cs)
                /\ openSince' = (openSince \/ HasOpen(cs))
                /\ UNCHANGED << m_status, m_url, m_componentCompleted,
                                m_errorString, m_webSocket, sendResult, phase,
                                facadeVars, delivered, workerObs, serverVars >>

sendFrame == << m_url, m_isActive, m_componentCompleted, m_webSocket, phase,
               facadeVars, delivered, workerObs, serverVars >>

\* (mutant) the status is not checked
Send_Unchecked(type, message) ==
    /\ Submit(<< Cmd(type, message) >>)
    /\ sendResult' = "-1"
    /\ emitted' = << >>
    /\ UNCHANGED << m_status, m_errorString, openSince, sendFrame >>

\* (mutant) the send is refused without reporting the error
Send_SilentRefusal(type, message) ==
    IF m_status # "Open"
    THEN /\ sendResult' = "0"
         /\ emitted' = << >>
         /\ UNCHANGED << m_status, m_errorString, openSince, sendFrame,
                         ws_m_url, cmdQ, submitted >>
    ELSE /\ Submit(<< Cmd(type, message) >>)
         /\ sendResult' = "-1"
         /\ emitted' = << >>
         /\ UNCHANGED << m_status, m_errorString, openSince, sendFrame >>

\* The body shared by sendTextMessage and sendBinaryMessage: 0 is returned
\* when the send is refused, else what the facade returns, which is -1.
Send(type, message) ==
    IF m_status # "Open"
    THEN LET r == setStatus(m_status,
                            setErrorString(m_errorString, SendErrString),
                            "Error")
         IN  /\ m_errorString' = r.errorString
             /\ m_status' = r.status
             /\ openSince' = (openSince /\ r.status = m_status)
             /\ sendResult' = "0"
             /\ emitted' = errorStringSignals(m_errorString, SendErrString)
                           \o r.signals
             /\ UNCHANGED << sendFrame, ws_m_url, cmdQ, submitted >>
    ELSE /\ Submit(<< Cmd(type, message) >>)
         /\ sendResult' = "-1"
         /\ emitted' = << >>
         /\ UNCHANGED << m_status, m_errorString, openSince, sendFrame >>

\* sendTextMessage(message)
sendTextMessage(message) ==
    /\ CallerIdle
    /\ lastCall' = "sendTextMessage"
    /\ Send("sendTextMessage", message)

\* sendBinaryMessage(message)
sendBinaryMessage(message) ==
    /\ CallerIdle
    /\ lastCall' = "sendBinaryMessage"
    /\ Send("sendBinaryMessage", message)

----------------------------------------------------------------------------
\* The caller thread's event loop delivers the oldest posted engine signal
\* to the facade's handler (connectedHandler, disconnectedHandler,
\* stateChangedHandler, textMessageReceivedHandler,
\* binaryMessageReceivedHandler, errorHandler), which re-emits it.
\* stateChangedHandler stores the state first.
\* What a handler of the facade does with the signal e: stateChangedHandler
\* stores the state, and every handler re-emits the signal.
Handled(e) ==
    /\ delivered' = Append(delivered, e)
    /\ m_state' = IF e.type = "stateChanged" THEN e.arg ELSE m_state

\* (mutant) errorHandler stores a state as well
Handler_StoresOnError(e) ==
    /\ evQ' = Tail(evQ)
    /\ delivered' = Append(delivered, e)
    /\ m_state' = IF e.type = "stateChanged" THEN e.arg
                  ELSE IF e.type = "error" THEN "UnconnectedState"
                  ELSE m_state

Handler(e) ==
    /\ evQ' = Tail(evQ)
    /\ Handled(e)

\* onStateChanged(state)
onStateChanged(state) ==
    LET r == setStatus(m_status, m_errorString, StatusOf(state))
    IN  /\ m_status' = r.status
        /\ m_errorString' = r.errorString
        /\ emitted' = r.signals
        /\ lastCall' = "onStateChanged"
        /\ openSince' = IF r.status # m_status /\ r.status \in {"Closed", "Error"}
                        THEN FALSE ELSE openSince

\* onError(error)
onError ==
    LET r == setStatus(m_status,
                       setErrorString(m_errorString, ws_m_errorString),
                       "Error")
    IN  /\ m_status' = r.status
        /\ m_errorString' = r.errorString
        /\ emitted' = errorStringSignals(m_errorString, ws_m_errorString)
                      \o r.signals
        /\ lastCall' = "onError"
        /\ openSince' = (openSince /\ r.status = m_status)

\* A signal reaches a facade nothing is connected to.
FacadeDeliverEvent ==
    /\ phase = "complete"
    /\ evQ # << >>
    /\ Handler(Head(evQ))
    /\ UNCHANGED << adapterVars, ws_m_url, ws_m_errorString, thread, quit,
                    cmdQ, engine, sock, submitted, workerObs, serverVars, openSince >>

\* A signal reaches the facade of the adapter: the adapter's slots are
\* connected directly to the facade's signals and run inside the emission.
DeliverEvent ==
    /\ CallerIdle
    /\ evQ # << >>
    /\ LET e == Head(evQ) IN
       /\ Handler(e)
       /\ CASE e.type = "stateChanged" -> onStateChanged(e.arg)
            [] e.type = "error"        -> onError
            [] OTHER ->
                 /\ lastCall' = e.type
                 /\ emitted' = IF e.type \in {"textMessageReceived",
                                              "binaryMessageReceived"}
                               THEN << Sig(e.type, e.arg) >> ELSE << >>
                 /\ UNCHANGED << m_status, m_errorString, openSince >>
    /\ UNCHANGED << m_url, m_isActive, m_componentCompleted, m_webSocket,
                    sendResult, phase, ws_m_url, ws_m_errorString, thread,
                    quit, cmdQ, engine, sock, submitted, workerObs, serverVars >>

----------------------------------------------------------------------------
\* QQmlWebSocketThreaded(socket, parent) around a QWebSocketThreaded that was
\* just constructed: url and errorString are copied from the facade, the
\* adapter is active and completed, setSocket(socket) is called and then
\* onStateChanged(socket->state()), where state() reads the member m_state
\* that nothing has written yet.
InitFromSocket ==
    /\ m_state \in Indeterminate
    /\ ws_m_url = NoUrl
    /\ ws_m_errorString = ""
    /\ m_url = ws_m_url
    /\ m_isActive = TRUE
    /\ m_componentCompleted = TRUE
    /\ m_webSocket = TRUE
    /\ LET r == setStatus("Closed", ws_m_errorString, StatusOf(m_state))
       IN  /\ m_status = r.status
           /\ m_errorString = r.errorString
           /\ emitted = r.signals
    /\ lastCall = "none"
    /\ sendResult = "none"
    /\ phase = "complete"
    /\ thread \in StartOutcomes
    /\ quit = FALSE
    /\ cmdQ = << >> /\ evQ = << >>
    /\ engine = "alive"
    /\ sock = "UnconnectedState"
    /\ submitted = << >> /\ executed = << >>
    /\ raised = << >> /\ delivered = << >>
    /\ nReceived = 0
    /\ openSince = FALSE
    /\ NoServer

----------------------------------------------------------------------------
\* QWebSocketThreaded used on its own: the caller's calls

\* QWebSocketThreaded(origin, version, parent): the QWebSocket is created
\* and moved to m_thread, the connections are made, m_thread.start() is
\* called.  m_state gets no initial value.
FacadeInit ==
    /\ m_status = "Closed"
    /\ m_url = NoUrl
    /\ m_isActive = FALSE
    /\ m_componentCompleted = TRUE
    /\ m_errorString = ""
    /\ m_webSocket = FALSE
    /\ sendResult = "none"
    /\ emitted = << >>
    /\ lastCall = "none"
    /\ phase = "complete"
    /\ m_state \in Indeterminate
    /\ ws_m_url = NoUrl
    /\ ws_m_errorString = ""
    /\ thread \in StartOutcomes
    /\ quit = FALSE
    /\ cmdQ = << >> /\ evQ = << >>
    /\ engine = "alive"
    /\ sock = "UnconnectedState"
    /\ submitted = << >> /\ executed = << >>
    /\ raised = << >> /\ delivered = << >>
    /\ nReceived = 0
    /\ openSince = FALSE
    /\ NoServer

\* (mutant) the call runs the command on the QWebSocket itself, as a
\* direct connection would
FacadeCall_Direct(c) ==
    /\ phase = "complete"
    /\ engine = "alive"
    /\ Len(submitted) < MaxCmds
    /\ submitted' = Append(submitted, c)
    /\ ws_m_url' = UrlAfter(ws_m_url, << c >>)
    /\ executed' = Append(executed, [cmd |-> c, at |-> sock])
    /\ UNCHANGED << adapterVars, m_state, ws_m_errorString, thread, quit, cmdQ,
                    evQ, engine, sock, raised, delivered, nReceived, openSince,
                    serverVars >>

\* A call of the facade emits its command signal; the connection to the
\* QWebSocket, which lives in m_thread, is queued, so the call returns once
\* the command is posted.
FacadeCall(c) ==
    /\ phase = "complete"
    /\ Submit(<< c >>)
    /\ UNCHANGED << adapterVars, facadeVars, delivered, workerObs, serverVars,
                    openSince >>

\* QWebSocketThreaded::open(url)
QWebSocketThreaded_open(url) == FacadeCall(Cmd("open", url))

\* QWebSocketThreaded::close(closeCode, reason)
QWebSocketThreaded_close == FacadeCall(Cmd("close", ""))

\* QWebSocketThreaded::sendTextMessage(message)
QWebSocketThreaded_sendTextMessage(message) ==
    FacadeCall(Cmd("sendTextMessage", message))

\* QWebSocketThreaded::sendBinaryMessage(data)
QWebSocketThreaded_sendBinaryMessage(data) ==
    FacadeCall(Cmd("sendBinaryMessage", data))

\* ~QWebSocketThreaded(), first statement: m_thread.quit()
DestructorQuit ==
    /\ phase = "complete"
    /\ phase' = "waiting"
    /\ quit' = TRUE
    /\ UNCHANGED << m_status, m_url, m_isActive, m_componentCompleted,
                    m_errorString, m_webSocket, sendResult, emitted, lastCall,
                    m_state,
                    ws_m_url,
                    ws_m_errorString, thread, cmdQ, evQ, engine, sock,
                    submitted, delivered, workerObs, serverVars, openSince >>

\* What m_thread.wait() waits for: it returns once the thread has finished,
\* and at once for a thread that never ran.
WaitOver(t) == t \in {"finished", "failed"}

\* ~QWebSocketThreaded(), second statement: m_thread.wait() returns, the
\* destructor returns and the QObject base drops what is still posted to
\* the facade.
DestructorReturn ==
    /\ phase = "waiting"
    /\ WaitOver(thread)
    /\ phase' = "destroyed"
    /\ evQ' = << >>
    /\ UNCHANGED << m_status, m_url, m_isActive, m_componentCompleted,
                    m_errorString, m_webSocket, sendResult, emitted, lastCall,
                    m_state,
                    ws_m_url,
                    ws_m_errorString, thread, quit, cmdQ, engine, sock,
                    submitted, delivered, workerObs, serverVars, openSince >>

----------------------------------------------------------------------------
\* The QWebSocket: what a command does to it, as the set of possible
\* (new socket state, signals emitted) outcomes.
EngineOutcomes(c, s) ==
    CASE c.type = "open" /\ s = "UnconnectedState" ->
            { [sock |-> "ConnectingState",
               events |-> << Ev("stateChanged", "ConnectingState") >>] }
      [] c.type = "close" /\ s = "ConnectedState" ->
            { [sock |-> "ClosingState",
               events |-> << Ev("stateChanged", "ClosingState") >>] }
      [] c.type = "close" /\ s = "ConnectingState" ->
            { [sock |-> "UnconnectedState",
               events |-> << Ev("stateChanged", "UnconnectedState"),
                             Ev("disconnected", "") >>] }
      [] OTHER -> { [sock |-> s, events |-> << >>] }

\* emitting the signals es in the worker thread
Emit(es) ==
    /\ evQ' = PostEvents(evQ, es)
    /\ raised' = raised \o es

WorkerRunning == thread = "running" /\ engine = "alive"

\* The worker thread's event loop runs the oldest posted command on the
\* QWebSocket.
ExecCommand ==
    /\ WorkerRunning
    /\ cmdQ # << >>
    /\ LET c == Head(cmdQ) IN
       /\ cmdQ' = Tail(cmdQ)
       /\ executed' = Append(executed, [cmd |-> c, at |-> sock])
       /\ \E o \in EngineOutcomes(c, sock) :
             /\ sock' = o.sock
             /\ Emit(o.events)
    /\ UNCHANGED << adapterVars, m_state, ws_m_url, ws_m_errorString, thread,
                    quit, engine, submitted, delivered, nReceived, openSince,
                    serverVars >>

workerFrame == << adapterVars, m_state, ws_m_url, ws_m_errorString, thread,
                  quit, engine, cmdQ, submitted, executed, delivered,
                  openSince, serverVars >>

\* the handshake with the server succeeds
EngineConnected ==
    /\ WorkerRunning
    /\ sock = "ConnectingState"
    /\ sock' = "ConnectedState"
    /\ Emit(<< Ev("stateChanged", "ConnectedState"), Ev("connected", "") >>)
    /\ UNCHANGED << workerFrame, nReceived >>

\* The connection attempt fails: the socket reports the state change, then
\* the error.
EngineRefused ==
    /\ WorkerRunning
    /\ sock = "ConnectingState"
    /\ sock' = "UnconnectedState"
    /\ Emit(<< Ev("stateChanged", "UnconnectedState"),
               Ev("error", "ConnectionRefusedError") >>)
    /\ UNCHANGED << workerFrame, nReceived >>

\* The peer drops the open connection: the socket reports the error, then
\* disconnects.
EngineDropped ==
    /\ WorkerRunning
    /\ sock = "ConnectedState"
    /\ sock' = "UnconnectedState"
    /\ Emit(<< Ev("error", "RemoteHostClosedError"),
               Ev("stateChanged", "UnconnectedState"),
               Ev("disconnected", "") >>)
    /\ UNCHANGED << workerFrame, nReceived >>

\* the closing handshake completes
EngineClosed ==
    /\ WorkerRunning
    /\ sock = "ClosingState"
    /\ sock' = "UnconnectedState"
    /\ Emit(<< Ev("stateChanged", "UnconnectedState"), Ev("disconnected", "") >>)
    /\ UNCHANGED << workerFrame, nReceived >>

\* a text message arrives from the peer
EngineReceived(message) ==
    /\ WorkerRunning
    /\ sock = "ConnectedState"
    /\ nReceived < MaxRecv
    /\ nReceived' = nReceived + 1
    /\ Emit(<< Ev("textMessageReceived", message) >>)
    /\ UNCHANGED << workerFrame, sock >>

\* The event loop of m_thread returns after quit(): the thread finishes,
\* finished() runs deleteLater on the QWebSocket, and the commands still
\* posted to it go with it.
WorkerExit ==
    /\ thread = "running"
    /\ quit
    /\ thread' = "finished"
    /\ engine' = "deleted"
    /\ cmdQ' = << >>
    /\ UNCHANGED << adapterVars, m_state, ws_m_url, ws_m_errorString, quit,
                    evQ, sock, submitted, delivered, workerObs, serverVars,
                    openSince >>

----------------------------------------------------------------------------
\* QWebSocketServer: the requests clients send.  A request is the sequence
\* of its lines, request line first; the blank line that ends it travels
\* with its last line.
Line(n, v) == [name |-> n, value |-> v]

WebSocketKey == "dGhlIHNhbXBsZSBub25jZQ=="
GUID == "258EAFA5-E914-47DA-95CA-C5AB0DC85B11"

WellFormed ==
    << Line("Request-Line", "GET"),
       Line("Upgrade", "websocket"),
       Line("Connection", "Upgrade"),
       Line("Sec-WebSocket-Key", WebSocketKey),
       Line("Sec-WebSocket-Version", "13") >>

MalformedRequestLine == [WellFormed EXCEPT ![1] = Line("Request-Line", "BAD")]
UnsupportedVersion ==
    [WellFormed EXCEPT ![5] = Line("Sec-WebSocket-Version", "8")]
MissingKey ==
    SelectSeq(WellFormed, LAMBDA l : l.name # "Sec-WebSocket-Key")

Requests == {WellFormed, MalformedRequestLine, UnsupportedVersion, MissingKey}

\* the value of the first line called n, empty when there is none
Field(lines, n) ==
    IF \E i \in 1..Len(lines) : lines[i].name = n
    THEN lines[CHOOSE i \in 1..Len(lines) :
                  /\ lines[i].name = n
                  /\ \A j \in 1..(i - 1) : lines[j].name # n].value
    ELSE ""

\* textStream >> request: the request read from what the socket holds
HandshakeRequest(data) ==
    [method     |-> Field(data, "Request-Line"),
     upgrade    |-> Field(data, "Upgrade"),
     connection |-> Field(data, "Connection"),
     key        |-> Field(data, "Sec-WebSocket-Key"),
     version    |-> Field(data, "Sec-WebSocket-Version"),
     origin     |-> Field(data, "Origin")]

requestIsValid(r) ==
    /\ r.method = "GET"
    /\ r.upgrade = "websocket"
    /\ r.connection = "Upgrade"
    /\ r.key # ""
    /\ r.version # ""

\* supportedVersions(): only version 13
supportedVersions == {"13"}

\* isOriginAllowed(origin)
isOriginAllowed(origin) == TRUE

\* the Sec-WebSocket-Accept value for a key
SHA1(text) == "SHA-1(" \o text \o ")"
Base64(bytes) == "base64(" \o bytes \o ")"
Accept(key) == Base64(SHA1(key \o GUID))

\* HandshakeResponse(request, ...): 101 with the accept value when the
\* request can be upgraded, else an error status
HandshakeResponse(r) ==
    LET ok == /\ requestIsValid(r)
              /\ isOriginAllowed(r.origin)
              /\ r.version \in supportedVersions
    IN  [isValid    |-> TRUE,
         canUpgrade |-> ok,
         status     |-> IF ok THEN "101" ELSE "400",
         accept     |-> IF ok THEN Accept(r.key) ELSE ""]

\* QWebSocket::upgradeFrom(pTcpSocket, request, response): the QWebSocket
\* that takes over stream s, named after it; 0 is the null pointer
upgradeFrom(s) == s

\* what is done to a stream or to the QWebSocket made from it
Op(o, status, detail) == [op |-> o, status |-> status, detail |-> detail]
WriteOp(response) == Op("write", response.status, response.accept)
UpgradeOp  == Op("upgradeFrom", "ConnectedState", "")
TcpCloseOp == Op("QTcpSocket::close", "", "")
GoingAwayOp == Op("QWebSocket::close", "CC_GOING_AWAY", "Server closed.")

Range(q) == { q[i] : i \in 1..Len(q) }

----------------------------------------------------------------------------
\* QWebSocketServer(serverName, parent)
DefaultMaxPendingConnections == 30

ServerInit ==
    /\ m_status = "Closed"
    /\ m_url = NoUrl
    /\ m_isActive = FALSE
    /\ m_componentCompleted = TRUE
    /\ m_errorString = ""
    /\ m_webSocket = FALSE
    /\ sendResult = "none"
    /\ emitted = << >>
    /\ lastCall = "none"
    /\ phase = "constructed"
    /\ m_state = "none"
    /\ ws_m_url = NoUrl
    /\ ws_m_errorString = ""
    /\ thread = "none"
    /\ quit = FALSE
    /\ cmdQ = << >> /\ evQ = << >>
    /\ engine = "none"
    /\ sock = "UnconnectedState"
    /\ submitted = << >> /\ executed = << >>
    /\ raised = << >> /\ delivered = << >>
    /\ nReceived = 0
    /\ openSince = FALSE
    /\ srv = "alive"
    /\ listening = FALSE
    /\ maxPending = DefaultMaxPendingConnections
    /\ m_pendingConnections = << >>
    /\ hs = [s \in Streams |-> "Idle"]
    /\ request = [s \in Streams |-> << >>]
    /\ got = [s \in Streams |-> << >>]
    /\ io = [s \in Streams |-> << >>]
    /\ newConnection = << >>
    /\ nextResult = << >>
    /\ handed = << >>
    /\ readyAgain = {}

\* listen(address, port)
listen ==
    /\ srv = "alive"
    /\ ~listening
    /\ listening' = TRUE
    /\ UNCHANGED << clientVars, readyAgain, srv, maxPending, m_pendingConnections, hs,
                    request, got, io, newConnection, nextResult, handed >>

\* the descriptors setSocketDescriptor may be given
SocketDescriptors == {"listening socket", "no socket"}

\* setSocketDescriptor(socketDescriptor): the server takes over a socket
\* that is already listening; refused for anything else, and while the
\* server is listening.
setSocketDescriptor(socketDescriptor) ==
    /\ srv = "alive"
    /\ ~listening
    /\ listening' = (socketDescriptor = "listening socket")
    /\ UNCHANGED << clientVars, readyAgain, srv, maxPending, m_pendingConnections, hs,
                    request, got, io, newConnection, nextResult, handed >>

\* close()
QWebSocketServer_close ==
    /\ srv = "alive"
    /\ listening
    /\ listening' = FALSE
    /\ UNCHANGED << clientVars, readyAgain, srv, maxPending, m_pendingConnections, hs,
                    request, got, io, newConnection, nextResult, handed >>

\* setMaxPendingConnections(numConnections)
setMaxPendingConnections(numConnections) ==
    /\ srv = "alive"
    /\ maxPending' = numConnections
    /\ UNCHANGED << clientVars, readyAgain, srv, listening, m_pendingConnections, hs,
                    request, got, io, newConnection, nextResult, handed >>

\* hasPendingConnections()
hasPendingConnections(q) == q # << >>

\* onNewConnection(): the listening QTcpServer has accepted stream s, whose
\* client is about to send req; readyRead is connected to handshakeReceived.
\* The QTcpServer accepts while it holds fewer than maxPendingConnections()
\* sockets of its own; the slot takes each one at once, so it holds none.
onNewConnection(s, req) ==
    /\ srv = "alive"
    /\ listening
    /\ 0 < maxPending
    /\ hs[s] = "Idle"
    /\ hs' = [hs EXCEPT ![s] = "AwaitingRequest"]
    /\ request' = [request EXCEPT ![s] = req]
    /\ UNCHANGED << clientVars, readyAgain, srv, listening, maxPending,
                    m_pendingConnections, got, io, newConnection, nextResult,
                    handed >>

\* (mutant) the limit is not checked
addPendingConnection_Unbounded(q, max, pWebSocket) == Append(q, pWebSocket)

\* (mutant) the new connection takes the place of the queued ones
addPendingConnection_Replacing(q, max, pWebSocket) ==
    IF Len(q) < max THEN << pWebSocket >> ELSE q

\* addPendingConnection(pWebSocket)
addPendingConnection(q, max, pWebSocket) ==
    IF Len(q) < max THEN Append(q, pWebSocket) ELSE q

\* (mutant) a stream that was not upgraded is left open
StreamOps_NoClose(response, upgraded) ==
    (IF response.isValid THEN << WriteOp(response) >> ELSE << >>)
    \o (IF upgraded THEN << UpgradeOp >> ELSE << >>)

\* What handshakeReceived does to the stream, in order: a valid response is
\* written and flushed, the stream becomes a QWebSocket when the response
\* can upgrade, and it is closed when that did not succeed.
StreamOps(response, upgraded) ==
    (IF response.isValid THEN << WriteOp(response) >> ELSE << >>)
    \o (IF upgraded THEN << UpgradeOp >> ELSE << >>)
    \o (IF ~upgraded THEN << TcpCloseOp >> ELSE << >>)

\* handshakeReceived(), run for stream s when data is ready on it.  The slot
\* reads the request from what has arrived, disconnects itself from
\* readyRead, and answers.
handshakeReceived(s, data) ==
    LET req        == HandshakeRequest(data)
        response   == HandshakeResponse(req)
        pWebSocket == IF response.isValid /\ response.canUpgrade
                      THEN upgradeFrom(s) ELSE 0
        success    == pWebSocket # 0
        queue      == IF success
                      THEN addPendingConnection(m_pendingConnections,
                                                maxPending, pWebSocket)
                      ELSE m_pendingConnections
    IN  /\ got' = [got EXCEPT ![s] = data]
        /\ io' = [io EXCEPT ![s] = @ \o StreamOps(response, success)]
        /\ m_pendingConnections' = queue
        /\ newConnection' =
              IF success
              THEN Append(newConnection,
                          [pWebSocket |-> pWebSocket, pending |-> queue])
              ELSE newConnection
        /\ hs' = [hs EXCEPT ![s] = IF success THEN "Upgraded" ELSE "Rejected"]

\* (mutant) the slot stays connected after it has run
handshakeConnected_Always(s) == hs[s] \in {"AwaitingRequest", "Upgraded"}

\* handshakeReceived is connected to readyRead of stream s: from
\* onNewConnection until the slot disconnects itself
handshakeConnected(s) == hs[s] = "AwaitingRequest"

\* The first n lines the client sends arrive on stream s and readyRead is
\* emitted; while handshakeReceived is connected to it, the slot runs.  On
\* an upgraded stream the client goes on sending, here its request again;
\* a rejected stream is closed.
readyRead(s, n) ==
    /\ srv = "alive"
    /\ hs[s] \in {"AwaitingRequest", "Upgraded"}
    /\ n \in 1..Len(request[s])
    /\ hs[s] = "Upgraded" => n = Len(request[s])
    /\ IF handshakeConnected(s)
       THEN /\ handshakeReceived(s, SubSeq(request[s], 1, n))
            /\ readyAgain' = IF hs[s] = "Upgraded" THEN readyAgain \cup {s}
                                                   ELSE readyAgain
       ELSE /\ readyAgain' = readyAgain \cup {s}
            /\ UNCHANGED << m_pendingConnections, hs, got, io, newConnection >>
    /\ UNCHANGED << clientVars, srv, listening, maxPending, request,
                    nextResult, handed >>

\* (mutant) the newest queued connection is returned
dequeue_Newest(q) ==
    IF q # << >>
    THEN [pWebSocket |-> q[Len(q)], queue |-> SubSeq(q, 1, Len(q) - 1)]
    ELSE [pWebSocket |-> 0, queue |-> q]

\* the body of nextPendingConnection(): what it returns, what it leaves
dequeue(q) ==
    IF q # << >>
    THEN [pWebSocket |-> Head(q), queue |-> Tail(q)]
    ELSE [pWebSocket |-> 0, queue |-> q]

\* nextPendingConnection()
nextPendingConnection ==
    /\ srv = "alive"
    /\ LET r == dequeue(m_pendingConnections)
       IN  /\ m_pendingConnections' = r.queue
           /\ nextResult' = << r.pWebSocket >>
           /\ handed' = IF r.pWebSocket # 0 THEN Append(handed, r.pWebSocket)
                                            ELSE handed
    /\ UNCHANGED << clientVars, readyAgain, srv, listening, maxPending, hs, request, got,
                    io, newConnection >>

\* (mutant) every QWebSocket the server made is closed
closePending_All(q, s) ==
    IF hs[s] = "Upgraded" THEN << GoingAwayOp >> ELSE << >>

\* the loop of ~QWebSocketServer(), seen from stream s: the QWebSocket is
\* closed when it is dequeued
closePending(q, s) ==
    IF s \in Range(q) THEN << GoingAwayOp >> ELSE << >>

\* ~QWebSocketServer()
QWebSocketServer_destructor ==
    /\ srv = "alive"
    /\ srv' = "destroyed"
    /\ io' = [s \in Streams |-> io[s] \o closePending(m_pendingConnections, s)]
    /\ m_pendingConnections' = << >>
    /\ listening' = FALSE
    /\ UNCHANGED << clientVars, readyAgain, maxPending, hs, request, got, newConnection,
                    nextResult, handed >>

----------------------------------------------------------------------------
Caller ==
    \/ classBegin
    \/ componentComplete
    \/ \E url \in Urls : setUrl(url)
    \/ \E active \in BOOLEAN : setActive(active)
    \/ \E message \in Messages : sendTextMessage(message)
    \/ \E message \in Messages : sendBinaryMessage(message)
    \/ DeliverEvent

Worker ==
    \/ ExecCommand
    \/ EngineConnected
    \/ EngineRefused
    \/ EngineDropped
    \/ EngineClosed
    \/ \E message \in Messages : EngineReceived(message)

\* The adapter with its facade and the QWebSocket
Next == Caller \/ Worker

Spec == Init /\ [][Next]_vars

\* The adapter constructed around an existing facade
SocketSpec == InitFromSocket /\ [][Next]_vars

FacadeCaller ==
    \/ \E url \in Urls \ {NoUrl} : QWebSocketThreaded_open(url)
    \/ QWebSocketThreaded_close
    \/ \E message \in Messages : QWebSocketThreaded_sendTextMessage(message)
    \/ \E data \in Messages : QWebSocketThreaded_sendBinaryMessage(data)
    \/ FacadeDeliverEvent
    \/ DestructorQuit
    \/ DestructorReturn

\* The facade on its own, from construction to destruction
FacadeNext == FacadeCaller \/ Worker \/ WorkerExit

FacadeSpec == FacadeInit /\ [][FacadeNext]_vars

\* The worker's event loop keeps running posted commands and returns once
\* quit() was called; wait() returns once the thread has finished.
FacadeFairSpec ==
    /\ FacadeSpec
    /\ WF_vars(ExecCommand)
    /\ WF_vars(WorkerExit)
    /\ WF_vars(DestructorReturn)

\* The facade with both event loops running: the caller's delivers every
\* posted signal as well.
FacadeLoopsFairSpec ==
    /\ FacadeFairSpec
    /\ WF_vars(FacadeDeliverEvent)

\* The adapter with both event loops running: the worker's runs the posted
\* commands, the caller's delivers the posted signals.
FairSpec ==
    /\ Spec
    /\ WF_vars(ExecCommand)
    /\ WF_vars(DeliverEvent)

\* What the adapter's calls and slots leave alone when a handler of the
\* facade runs
handlerFrame == << m_url, m_isActive, m_componentCompleted, m_webSocket,
                  sendResult, phase, ws_m_url, ws_m_errorString, thread, quit,
                  cmdQ, evQ, engine, sock, submitted, workerObs, serverVars >>

\* stateChangedHandler(state), run in the caller thread for a stateChanged
\* of the QWebSocket that may carry any state: the facade stores the state
\* and re-emits the signal, and the adapter's onStateChanged, connected
\* directly to it, runs inside the emission.
stateChangedHandler(state) ==
    /\ CallerIdle
    /\ WorkerRunning
    /\ Len(delivered) < MaxSignals
    /\ Handled(Ev("stateChanged", state))
    /\ onStateChanged(state)
    /\ UNCHANGED handlerFrame

\* errorHandler(error): the facade re-emits the error and the adapter's
\* onError runs inside the emission.
errorHandler ==
    /\ CallerIdle
    /\ WorkerRunning
    /\ Len(delivered) < MaxSignals
    /\ Handled(Ev("error", "UnknownSocketError"))
    /\ onError
    /\ UNCHANGED handlerFrame

\* The adapter's properties and slots, called by QML with any of the urls.
AdapterCaller ==
    \/ classBegin
    \/ componentComplete
    \/ \E url \in AdapterUrls : setUrl(url)
    \/ \E active \in BOOLEAN : setActive(active)
    \/ \E message \in Messages : sendTextMessage(message)
    \/ \E message \in Messages : sendBinaryMessage(message)

\* The adapter against a facade that may report any state and any error, in
\* any order: what the adapter does with a signal does not depend on what
\* led to it.
AdapterNext ==
    \/ AdapterCaller
    \/ \E state \in SocketStates : stateChangedHandler(state)
    \/ errorHandler

AdapterSpec == Init /\ [][AdapterNext]_vars

\* A QWebSocketServer, its owner and the clients that connect to it
ServerNext ==
    \/ listen
    \/ \E socketDescriptor \in SocketDescriptors :
          setSocketDescriptor(socketDescriptor)
    \/ QWebSocketServer_close
    \/ \E numConnections \in 0..MaxLimit :
          setMaxPendingConnections(numConnections)
    \/ \E s \in Streams, req \in Requests : onNewConnection(s, req)
    \/ \E s \in Streams, n \in 1..Len(WellFormed) : readyRead(s, n)
    \/ nextPendingConnection
    \/ QWebSocketServer_destructor

ServerSpec == ServerInit /\ [][ServerNext]_vars

----------------------------------------------------------------------------
\* Properties

ExecutedCommands == [i \in 1..Len(executed) |-> executed[i].cmd]
IsPrefix(a, b) == Len(a) <= Len(b) /\ \A i \in 1..Len(a) : a[i] = b[i]
SendTypes == {"sendTextMessage", "sendBinaryMessage"}

\* C1: the QWebSocket executes the commands in exactly the order the caller
\* submitted them: what has been executed is always an initial part of what was
\* submitted, so a close submitted after a send never runs before it.
C1_CommandsInOrder == IsPrefix(ExecutedCommands, submitted)

\* a send and then a close have both been executed
C1_Witness ==
    \E i, j \in 1..Len(executed) :
        /\ i < j
        /\ executed[i].cmd.type \in SendTypes
        /\ executed[j].cmd.type = "close"

\* C2: the signals the facade re-emits are the signals the QWebSocket raised,
\* in the same order, none reordered, merged or duplicated: what was delivered
\* is an initial part of what was raised, and until the facade is destroyed
\* the rest is exactly what is still posted.
C2_EventsInOrder ==
    /\ IsPrefix(delivered, raised)
    /\ phase # "destroyed" => raised = delivered \o evQ

\* two state changes, connected and a message have been re-emitted
C2_Witness ==
    /\ Len(delivered) >= 4
    /\ \E i \in 1..Len(delivered) : delivered[i].type = "connected"
    /\ \E i \in 1..Len(delivered) : delivered[i].type = "textMessageReceived"
    /\ evQ # << >>

SendCall ==
    \E message \in Messages :
        sendTextMessage(message) \/ sendBinaryMessage(message)

\* C3: a sendTextMessage or sendBinaryMessage call made while the status is
\* not Open fails at once: it returns 0, the status is Error when it returns
\* and no command is posted to the worker.
C3_SendRejected ==
    [][ (SendCall /\ m_status # "Open")
            => /\ sendResult' = "0"
               /\ m_status' = "Error"
               /\ cmdQ' = cmdQ
               /\ submitted' = submitted ]_vars

\* a send was refused while the QWebSocket was connecting
C3_Witness ==
    /\ m_status = "Error"
    /\ m_errorString = SendErrString
    /\ sock = "ConnectingState"
    /\ \A i \in 1..Len(submitted) : submitted[i].type \notin SendTypes

\* C4 as stated: the QWebSocket executes a send only while it is connected.
C4_Original ==
    \A i \in 1..Len(executed) :
        executed[i].cmd.type \in SendTypes => executed[i].at = "ConnectedState"

\* C4 as amended: a send command is posted to the worker only by a call made
\* while the adapter's status is Open (the QWebSocket may have left the
\* connected state by the time it executes the command).
C4_SendPostedOnlyWhenOpen ==
    [][ (/\ Len(submitted') > Len(submitted)
         /\ submitted'[Len(submitted')].type \in SendTypes)
            => m_status = "Open" ]_vars

\* a send posted while the status was Open was executed after the QWebSocket
\* had left the connected state
C4_Witness ==
    \E i \in 1..Len(executed) :
        /\ executed[i].cmd.type \in SendTypes
        /\ executed[i].at # "ConnectedState"

\* C5 as stated: the destructor of the facade returns only after the worker
\* thread has exited and the QWebSocket is released, no signal is delivered
\* afterwards, and once started the destructor does return.
C5_Original ==
    /\ [](phase = "destroyed"
             => thread = "finished" /\ engine = "deleted" /\ evQ = << >>)
    /\ [][phase = "destroyed" => delivered' = delivered]_vars
    /\ (phase = "waiting") ~> (phase = "destroyed")

\* C6 as stated: no command is dropped: every submitted command is
\* eventually executed by the QWebSocket, and when the facade is destroyed
\* with commands queued they have all been executed once the worker thread
\* has exited.
C6_Original ==
    /\ [](thread = "finished" => Len(executed) = Len(submitted))
    /\ \A n \in 1..MaxCmds : (Len(submitted) >= n) ~> (Len(executed) >= n)

\* C7 as stated: a status other than Error implies an empty errorString.
C7_Original == m_status # "Error" => m_errorString = ""

\* C8 as stated: the status Error implies a non-empty errorString.
C8_Original == m_status = "Error" => m_errorString # ""

AllowedTransitions ==
    { << "Connecting", "Open" >>, << "Connecting", "Closed" >>,
      << "Connecting", "Error" >>,
      << "Open", "Closing" >>, << "Open", "Closed" >>, << "Open", "Error" >>,
      << "Closing", "Closed" >>, << "Closing", "Error" >>,
      << "Closed", "Connecting" >>, << "Error", "Connecting" >> }

\* C9 as stated: every change of the status is a transition of the state
\* machine, or the transition to Error of a refused send.
C9_Original ==
    [][ m_status' # m_status
            => \/ << m_status, m_status' >> \in AllowedTransitions
               \/ (SendCall /\ m_status' = "Error") ]_vars

\* C10 as stated: from Closed or Error the status goes to Open, Closing or
\* Connecting only if an open command was submitted after the status was
\* entered.
C10_Original ==
    [][ (/\ m_status \in {"Closed", "Error"}
         /\ m_status' \in {"Open", "Closing", "Connecting"})
            => openSince ]_vars

----------------------------------------------------------------------------
\* Properties of the server

\* the QWebSockets that entered the pending queue, in the order they did
Enqueued ==
    LET added == SelectSeq(newConnection,
                           LAMBDA e : e.pWebSocket \in Range(e.pending))
    IN  [i \in 1..Len(added) |-> added[i].pWebSocket]

Done(s) == hs[s] \in {"Upgraded", "Rejected"}

\* C11 as stated: while the server lives the pending queue never holds
\* more connections than maxPendingConnections().
C11_Original ==
    srv = "alive" => Len(m_pendingConnections) <= maxPending

\* C12 as stated: a stream that was upgraded and is neither in the pending
\* queue nor handed to the caller has been closed with the going-away code.
C12_Original ==
    \A s \in Streams :
        (/\ hs[s] = "Upgraded"
         /\ s \notin Range(m_pendingConnections)
         /\ s \notin Range(handed))
            => GoingAwayOp \in Range(io[s])

\* C13: a stream whose handshake was run on anything but a well-formed
\* upgrade request is Rejected: exactly a response with a status other than
\* 101 was written to it and then it was closed, it is not in the pending
\* queue, was not handed out, and no newConnection was emitted for it.
C13_InvalidRejected ==
    \A s \in Streams :
        (Done(s) /\ got[s] # WellFormed) =>
            /\ hs[s] = "Rejected"
            /\ Len(io[s]) = 2
            /\ io[s][1].op = "write" /\ io[s][1].status # "101"
            /\ io[s][2] = TcpCloseOp
            /\ s \notin Range(m_pendingConnections)
            /\ s \notin Range(handed)
            /\ \A i \in 1..Len(newConnection) : newConnection[i].pWebSocket # s

\* a request without Sec-WebSocket-Key, one with an unsupported version and
\* one with a malformed request line can each be read whole and rejected
C13_Witness ==
    \E s \in Streams :
        /\ hs[s] = "Rejected"
        /\ got[s] \in {MissingKey, UnsupportedVersion, MalformedRequestLine}

\* C14 as stated: a stream whose client sends a well-formed request, in
\* however many pieces, is never rejected.
C14_Original ==
    \A s \in Streams : request[s] = WellFormed => hs[s] # "Rejected"

\* C15 as stated: a stream whose client sent a well-formed upgrade request
\* is, once its handshake has run, Upgraded; the first thing done to it is
\* writing a 101 response whose Sec-WebSocket-Accept is
\* base64(SHA-1(key + GUID)), the second is making the QWebSocket from it,
\* in the connected state.
C15_Original ==
    \A s \in Streams :
        (Done(s) /\ request[s] = WellFormed) =>
            /\ hs[s] = "Upgraded"
            /\ Len(io[s]) >= 2
            /\ io[s][1] =
                 Op("write", "101",
                    "base64(SHA-1(dGhlIHNhbXBsZSBub25jZQ==258EAFA5-E914-47DA-95CA-C5AB0DC85B11))")
            /\ io[s][2] = Op("upgradeFrom", "ConnectedState", "")

\* C16 as stated: every emission of newConnection is for a connection that
\* was appended to the pending queue, so that right after it
\* hasPendingConnections() is true.
C16_Original ==
    \A i \in 1..Len(newConnection) :
        /\ newConnection[i].pWebSocket \in Range(newConnection[i].pending)
        /\ hasPendingConnections(newConnection[i].pending)

\* C17: the connections handed out followed by the connections still
\* queued are the connections that were queued, in the order they were
\* queued; a call of nextPendingConnection on an empty queue returns 0 and
\* changes nothing, a call on a non-empty queue removes and returns its
\* oldest connection.
C17_OldestFirst ==
    /\ [](srv = "alive" => handed \o m_pendingConnections = Enqueued)
    /\ [][ (nextResult' # nextResult \/ handed' # handed) =>
             IF m_pendingConnections = << >>
             THEN /\ nextResult' = << 0 >>
                  /\ UNCHANGED << m_pendingConnections, handed >>
             ELSE /\ nextResult' = << Head(m_pendingConnections) >>
                  /\ m_pendingConnections' = Tail(m_pendingConnections)
                  /\ handed' = Append(handed, Head(m_pendingConnections)) ]_vars

\* two connections were handed out, and a further call returned 0
C17_Witness == Len(handed) >= 2 /\ nextResult = << 0 >>

\* C18: once the server is destroyed the pending queue is empty, the last
\* thing done to every connection that was still queued is a close with the
\* going-away code, and no connection that had been handed out was closed.
C18_DestructorClosesPending ==
    srv = "destroyed" =>
        /\ m_pendingConnections = << >>
        /\ \A s \in Range(Enqueued) \ Range(handed) :
              io[s][Len(io[s])] = GoingAwayOp
        /\ \A s \in Range(handed) : GoingAwayOp \notin Range(io[s])

\* the server was destroyed with one connection queued and one handed out
C18_Witness ==
    /\ srv = "destroyed"
    /\ Range(Enqueued) \ Range(handed) # {}
    /\ Range(handed) # {}

\* C19: the step that runs the handshake of a stream leaves every other
\* stream as it was (handshake state, request, what was read, what was
\* done to it), keeps the queued connections and their order, and leaves
\* the listening state alone.
C19_HandshakeFrame ==
    [][ \A s \in Streams :
          (hs[s] = "AwaitingRequest" /\ hs'[s] # hs[s]) =>
              /\ \A t \in Streams \ {s} :
                    /\ hs'[t] = hs[t] /\ request'[t] = request[t]
                    /\ got'[t] = got[t] /\ io'[t] = io[t]
              /\ IsPrefix(m_pendingConnections, m_pendingConnections')
              /\ listening' = listening ]_vars

\* one stream was rejected while the server listens and another stream's
\* connection is queued
C19_Witness ==
    \E s, t \in Streams :
        /\ hs[s] = "Rejected"
        /\ hs[t] = "Upgraded" /\ t \in Range(m_pendingConnections)
        /\ listening

----------------------------------------------------------------------------
\* what belongs to the QWebSocket, and what belongs to the caller's thread
EngineState == << engine, sock, executed, raised, nReceived >>
CallerState == << adapterVars, m_state, ws_m_url, submitted, delivered >>

\* C20: once the facade is constructed, a step that opens, closes, sends
\* on or feeds the QWebSocket is a step of the running worker thread and
\* changes nothing of the caller's; the QWebSocket is deleted in the step in
\* which that thread finishes; a call of the facade only appends its command
\* to the posted commands and leaves the caller free to go on; and a step
\* that handles an engine signal is the caller's and touches neither the
\* QWebSocket nor the worker thread.
C20_EngineConfined ==
    [][ /\ EngineState' # EngineState =>
              /\ thread = "running"
              /\ CallerState' = CallerState
        /\ (engine' = "deleted" /\ engine # "deleted") => thread' = "finished"
        /\ submitted' # submitted =>
              /\ Len(submitted') = Len(submitted) + 1
              /\ submitted' = Append(submitted, submitted'[Len(submitted')])
              /\ cmdQ' = Append(cmdQ, submitted'[Len(submitted')])
              /\ phase = "complete" /\ phase' = "complete"
        /\ delivered' # delivered =>
              /\ phase = "complete"
              /\ UNCHANGED << EngineState, thread, cmdQ >> ]_vars

\* an open and a close were executed, a signal of the QWebSocket was
\* handled, and the facade was destroyed, the QWebSocket with it
C20_Witness ==
    /\ Len(executed) = MaxCmds
    /\ \E i \in 1..Len(executed) : executed[i].cmd.type = "open"
    /\ \E i \in 1..Len(executed) : executed[i].cmd.type = "close"
    /\ delivered # << >>
    /\ engine = "deleted"
    /\ phase = "destroyed"

----------------------------------------------------------------------------
\* Properties of the adapter and the facade, continued

\* C21: the facade's m_state changes only in the step that handles a
\* stateChanged of the QWebSocket, to the state that signal carries (or when
\* the facade is constructed); a step that submits a command leaves it
\* alone; and the adapter's status changes only in a refused send, to Error,
\* or in the step that handles a stateChanged or an error of the QWebSocket.
C21_NoInventedTransitions ==
    [][ /\ m_state' # m_state =>
              \/ m_state = "none"
              \/ delivered' = Append(delivered, Ev("stateChanged", m_state'))
        /\ (submitted' # submitted /\ m_state # "none") => m_state' = m_state
        /\ m_status' # m_status =>
              \/ SendCall /\ m_status' = "Error"
              \/ /\ Len(delivered') = Len(delivered) + 1
                 /\ delivered'[Len(delivered')].type \in {"stateChanged", "error"}
      ]_vars

\* the status followed the QWebSocket to Open, then to Error when the peer
\* dropped the connection, with commands submitted on the way
C21_Witness ==
    /\ m_status = "Error"
    /\ m_state = "ConnectedState"
    /\ Len(submitted) >= 2
    /\ \E i \in 1..Len(delivered) : delivered[i].type = "error"

\* C22: a setActive with the value active already has submits nothing,
\* emits nothing and changes nothing; a setActive that changes active
\* submits, on a completed component, an open for the url when active becomes
\* true and the url is valid, a close when active becomes false, and nothing
\* before completion;
\* componentComplete submits the open when active was set and the url is
\* valid; and whatever step submits an open does so with the component
\* completed, active true and the url valid, for that url.
C22_ActiveTogglesConnection ==
    [][ /\ \A active \in BOOLEAN :
              setActive(active) /\ active = m_isActive =>
                  /\ emitted' = << >>
                  /\ UNCHANGED << submitted, cmdQ, m_isActive, m_status,
                                  m_errorString, m_url, ws_m_url,
                                  m_componentCompleted >>
        /\ m_isActive' # m_isActive =>
              submitted' = submitted \o
                  (IF ~(m_componentCompleted /\ m_webSocket) THEN << >>
                   ELSE IF ~m_isActive' THEN << Cmd("close", "") >>
                   ELSE IF isValid(m_url) THEN << Cmd("open", m_url) >>
                   ELSE << >>)
        /\ (phase = "begun" /\ phase' = "complete") =>
              submitted' = submitted \o
                  (IF m_isActive /\ isValid(m_url)
                   THEN << Cmd("open", m_url) >> ELSE << >>)
        /\ \A i \in (Len(submitted) + 1)..Len(submitted') :
              submitted'[i].type = "open" =>
                  /\ m_componentCompleted' /\ m_isActive' /\ isValid(m_url')
                  /\ submitted'[i].arg = m_url'
      ]_vars

\* active was set, the open went out, setting it back sent the close, and
\* setting it to false once more did nothing
C22_Witness ==
    /\ ~m_isActive
    /\ submitted = << Cmd("open", "ws://a"), Cmd("close", "") >>
    /\ lastCall = "setActive"
    /\ emitted = << >>

\* C23 as stated: once the worker thread has refused to start, the status
\* eventually becomes Error.
C23_Original == (thread = "failed") ~> (m_status = "Error")

\* C25: a stream is run through the handshake at most once, however often
\* it becomes readable: at most one response is written to it, at most one
\* newConnection is emitted for it, and it is at most once among the
\* connections queued or handed out.
C25_HandshakeOnce ==
    \A s \in Streams :
        /\ Cardinality({ i \in 1..Len(io[s]) : io[s][i].op = "write" }) <= 1
        /\ Cardinality({ i \in 1..Len(newConnection) :
                            newConnection[i].pWebSocket = s }) <= 1
        /\ Cardinality({ i \in 1..Len(handed \o m_pendingConnections) :
                            (handed \o m_pendingConnections)[i] = s }) <= 1

\* a stream that was upgraded and queued became readable again
C25_Witness ==
    \E s \in readyAgain :
        /\ hs[s] = "Upgraded"
        /\ s \in Range(m_pendingConnections)

\* the call emitted exactly the signal s, carrying a
EmittedOnly(e, s, a) == Len(e) = 1 /\ e[1].signal = s /\ e[1].arg = a

\* C24: setUrl with the url the adapter already has submits nothing, emits
\* nothing and changes nothing.  setUrl with a different url stores it, emits
\* urlChanged (a signal without argument), and submits a close first when
\* the status is Open, then the open for the new url when the component is
\* completed, active and the url valid; otherwise no open.  Nothing else is
\* submitted by the call.
C24_UrlChange ==
    [][ /\ \A url \in AdapterUrls :
              setUrl(url) /\ url = m_url =>
                  /\ emitted' = << >>
                  /\ UNCHANGED << submitted, cmdQ, m_status, m_errorString,
                                  m_isActive, ws_m_url >>
        /\ m_url' # m_url =>
              /\ EmittedOnly(emitted', "urlChanged", "")
              /\ submitted' = submitted
                    \o (IF m_webSocket /\ m_status = "Open"
                        THEN << Cmd("close", "") >> ELSE << >>)
                    \o (IF m_componentCompleted /\ m_isActive /\ m_webSocket
                           /\ m_url' # NoUrl
                        THEN << Cmd("open", m_url') >> ELSE << >>)
              /\ cmdQ' = cmdQ \o SubSeq(submitted', Len(submitted) + 1,
                                        Len(submitted')) ]_vars

\* the url was changed while Open: a close and right after it the open for
\* the new url were submitted
C24_Witness ==
    /\ EmittedOnly(emitted, "urlChanged", "")
    /\ \E i \in 1..(Len(submitted) - 1) :
          /\ submitted[i] = Cmd("close", "")
          /\ submitted[i + 1] = Cmd("open", m_url)
          /\ i + 1 = Len(submitted)

\* the step handles a stateChanged signal
StateChangedHandled ==
    /\ Len(delivered') = Len(delivered) + 1
    /\ delivered'[Len(delivered')].type = "stateChanged"

\* C26: handling stateChanged(state) leaves the status Open for the connected
\* state, Closed for the unconnected state, Closing for the closing state and
\* Connecting for the connecting, host-lookup, bound and every other state;
\* no stateChanged leaves the status Error.
C26_StatusMapping ==
    [][ StateChangedHandled =>
          LET state == delivered'[Len(delivered')].arg IN
          /\ state = "ConnectedState" => m_status' = "Open"
          /\ state = "UnconnectedState" => m_status' = "Closed"
          /\ state = "ClosingState" => m_status' = "Closing"
          /\ state \notin {"ConnectedState", "UnconnectedState",
                           "ClosingState"} => m_status' = "Connecting"
          /\ m_status' # "Error" ]_vars

\* a state the switch does not name was handled and the status is Connecting
C26_Witness ==
    /\ delivered # << >>
    /\ delivered[Len(delivered)] = Ev("stateChanged", "ListeningState")
    /\ m_status = "Connecting"

\* the positions of the signal s among the signals e of one call
Emissions(e, s) == { i \in 1..Len(e) : e[i].signal = s }

\* C27: a call of the adapter emits statusChanged only when it changes the
\* status, at most once, carrying the new status, and every change of the
\* status is announced; so two statusChanged in a row never carry the same
\* status, and a state that maps to the status the adapter already has
\* emits nothing.  errorStringChanged is emitted only when errorString
\* changes, carrying the new text.
C27_EmittedOnChange ==
    [][ (AdapterNext \/ DeliverEvent) =>
          /\ \A i \in Emissions(emitted', "statusChanged") :
                /\ m_status' # m_status
                /\ emitted'[i].arg = m_status'
          /\ Cardinality(Emissions(emitted', "statusChanged")) <= 1
          /\ m_status' # m_status =>
                Emissions(emitted', "statusChanged") # {}
          /\ \A i \in Emissions(emitted', "errorStringChanged") :
                /\ m_errorString' # m_errorString
                /\ emitted'[i].arg = m_errorString' ]_vars

\* the host-lookup state and right after it the connecting state were
\* handled: the status is Connecting and the second one emitted nothing
C27_Witness ==
    /\ Len(delivered) >= 2
    /\ delivered[Len(delivered) - 1] = Ev("stateChanged", "HostLookupState")
    /\ delivered[Len(delivered)] = Ev("stateChanged", "ConnectingState")
    /\ lastCall = "onStateChanged"
    /\ emitted = << >>
    /\ m_status = "Connecting"

\* the stateChanged signals handled so far
StateChangesDelivered ==
    SelectSeq(delivered, LAMBDA e : e.type = "stateChanged")

\* C28: state() is the state carried by the last stateChanged handled, and
\* unless the facade is destroyed it ends up equal to the state the
\* QWebSocket is in, for good, once the socket has stopped changing state.
C28_Original ==
    /\ [](StateChangesDelivered # << >> =>
            m_state = StateChangesDelivered[Len(StateChangesDelivered)].arg)
    /\ (<>(phase # "complete") \/ <>[](m_state = sock))
============================================================================
